---- MODULE Spec2Model ----
(***************************************************************************)
(* Model of backend/app.py: the /estimate handler, estimate_arrival_time,  *)
(* find_nearest_stop and the memoized calculate_distance_google_maps.      *)
(*                                                                         *)
(* Units.  Python floats are not available, so a distance of d metres is   *)
(* kept as the integer d and stands for d / 1000.0 km; a duration of s     *)
(* seconds is kept as s and stands for s / 60.0 minutes.  Coordinates are  *)
(* integers in units of 1e-5 degree.  Time is in whole seconds.            *)
(***************************************************************************)
EXTENDS Integers, Sequences, FiniteSets, TLC

\* ---------------------------------------------------------------- bounds
NumThreads == 2
MaxStops == 3
MaxRequests == 2
MaxNow == 600

\* ------------------------------------------------------- program constants
CACHE_DEFAULT_TIMEOUT == 300

\* Python's None where a document, a stop or a key is expected.
None == [none |-> TRUE]
\* A request parameter that is missing (request.args.get gives None) or empty.
NoParam == ""
\* A field a JSON body lacks.
Missing == <<>>
NoStatus == "(no status)"

Threads == 1..NumThreads

\* Python sequences: a list [x0, x1] or a tuple (x0, x1); str() of the two
\* differs, and memoize builds the cache key from str() of the arguments.
PyList(c) == [type |-> "list", x0 |-> c[1], x1 |-> c[2]]
PyTuple(a, b) == [type |-> "tuple", x0 |-> a, x1 |-> b]

\* ------------------------------------------------------------ record store
\* GeoJSON order: coordinates = [long, lat].
StopDoc(s) == [stop_id |-> s, coordinates |-> PyList(<<100 + 10 * s, 20>>)]

StopList(n) == [s \in 1..n |-> StopDoc(s)]

BusDocs == [B1 |-> [bus_number |-> "B1", route_id |-> "R1",
                    current_location |-> [coordinates |-> PyList(<<107, 25>>)]],
            B2 |-> [bus_number |-> "B2", route_id |-> "R2",
                    current_location |-> [coordinates |-> PyList(<<107, 25>>)]]]

UserDocs == [U0 |-> [location |-> None],
             U1 |-> [location |-> PyList(<<0, 0>>)],
             U2 |-> [location |-> PyList(<<3, 0>>)]]

BusNumbers == {NoParam, "B1", "B2", "B9"}
UserIds == {NoParam, "U0", "U1", "U2", "U9"}

\* ------------------------------------------------- external distance service
\* What one requests.get can end in: a network failure, an HTTP error status,
\* or a JSON body.  A body has a status field (or lacks it), rows (or not),
\* and in its first element a distance / duration value (or not).  (A body
\* that is not JSON is left out: whether response.json() then raises a
\* RequestException depends on the version of requests.)
Body(status, rows, distance, duration) ==
    [kind |-> "Body", status |-> status, rows |-> rows,
     distance |-> distance, duration |-> duration]

Failure(kind) ==
    [kind |-> kind, status |-> NoStatus, rows |-> FALSE,
     distance |-> Missing, duration |-> Missing]

Responses ==
    { Failure("ConnectionError"),
      Failure("HTTPError"),
      Body("OK", TRUE, <<1000>>, <<120>>),
      Body("OK", TRUE, <<2000>>, <<60>>),
      Body("OK", TRUE, Missing, Missing),
      Body("OVER_QUERY_LIMIT", FALSE, Missing, Missing),
      Body("OK", FALSE, Missing, Missing),
      Body(NoStatus, FALSE, Missing, Missing) }

\* A return value (distance, duration) of calculate_distance_google_maps;
\* none = TRUE is the pair (None, None).
Result(distance, duration) ==
    [none |-> FALSE, distance |-> distance, duration |-> duration]

Unavailable == [none |-> TRUE, distance |-> 0, duration |-> 0]

\* Faulty variant of GetValue: a missing value is marked by -1.
GetValueSentinel(v) == IF v = Missing THEN 0 - 1 ELSE v[1]

\* element.get(name, {}).get('value', 0)
GetValue(v) == IF v = Missing THEN 0 ELSE v[1]

\* The body of calculate_distance_google_maps once requests.get has ended in
\* resp: the value it returns, or the exception that escapes it.
FunctionBody(resp) ==
    CASE resp.kind \in {"ConnectionError", "HTTPError"} ->
            [raised |-> FALSE, rv |-> Unavailable]
      [] resp.status = NoStatus ->
            [raised |-> TRUE, rv |-> Unavailable]
      [] resp.status = "OK" /\ ~resp.rows ->
            [raised |-> TRUE, rv |-> Unavailable]
      [] resp.status = "OK" ->
            [raised |-> FALSE,
             rv |-> Result(GetValue(resp.distance), GetValue(resp.duration))]
      [] OTHER ->
            [raised |-> FALSE, rv |-> Unavailable]

\* The query string the function sends: "origins": f"{origin[1]},{origin[0]}".
Params(origin, destination) ==
    [origins |-> <<origin.x1, origin.x0>>,
     destinations |-> <<destination.x1, destination.x0>>]

\* ------------------------------------------------------------------ state
VARIABLES
    now,      \* wall clock, time.time() / datetime.now(), in seconds
    db,       \* the MongoDB collections buses, users, routes
    memver,   \* memoize's version entry for the function, kept in the cache
    cache,    \* SimpleCache: (origin, destination) -> stored entry
    th,       \* one record per request thread: handler position and locals
    lastCall, \* history: per (origin, destination), the last call that returned
    received  \* history: number of /estimate requests received so far

vars == <<now, db, memver, cache, th, lastCall, received>>

\* float('inf'), and a finite minimum
Inf == [inf |-> TRUE, v |-> 0]
Finite(v) == [inf |-> FALSE, v |-> v]

NoCall == [made |-> FALSE]

IdleThread ==
    [pc |-> "idle", bus_number |-> NoParam, user_id |-> NoParam,
     bus |-> None, user |-> None, route_stops |-> <<>>,
     i |-> 0, min_distance |-> Inf, nearest_stop |-> None,
     distance_to_bus |-> Unavailable,
     key |-> None, response |-> None,
     \* history of this request: the collections queried, the result of each
     \* stop's resolution, the outbound queries sent, the last call returned
     lookups |-> <<>>, resolved |-> <<>>, outbound |-> 0,
     t |-> 0, attempts |-> 0, call |-> NoCall,
     \* history: the query parameters of each outbound query, in order
     sent |-> <<>>]

Init ==
    /\ now = 0
    /\ \E n \in 0..MaxStops :
          db = [buses |-> BusDocs, users |-> UserDocs,
                routes |-> [R1 |-> [route_id |-> "R1", stops |-> StopList(n)]]]
    /\ memver = [id |-> 0, expires |-> 0]
    /\ cache = <<>>
    /\ th = [r \in Threads |-> IdleThread]
    /\ lastCall = <<>>
    /\ received = 0

\* ----------------------------------------------------- record store lookups
\* db.<collection>.find_one({...}): the document, or None.
FindOne(collection, id) ==
    IF id \in DOMAIN collection THEN collection[id] ELSE None

\* A value that is a list or None.
NoList == [none |-> TRUE, list |-> <<>>]
List(l) == [none |-> FALSE, list |-> l]

\* get_route_stops
get_route_stops(route_id) ==
    LET route == FindOne(db.routes, route_id)
    IN  IF route # None THEN List(route.stops) ELSE NoList

\* Faulty variant of FalsyList: only None counts as false, as in
\* `if route_stops is None`.
FalsyListNoneOnly(l) == l.none

\* Python truthiness of what the handler tests with `not x`: None and an
\* empty list are false, and so is a missing or empty request parameter.
Falsy(x) == x = None \/ x = <<>>
FalsyList(l) == l.none \/ l.list = <<>>
FalsyParam(p) == p = NoParam

\* ------------------------------------------------------------- the cache
\* flask_caching memoize keeps a version token for the function in the same
\* cache, stored with the same timeout; the key of a memoized call is made of
\* the function name, str(args) and that token.  A missing or expired token
\* is replaced by a fresh one.
MemoizeVersion ==
    IF memver.id = 0 \/ memver.expires <= now
    THEN [id |-> memver.id + 1, expires |-> now + CACHE_DEFAULT_TIMEOUT]
    ELSE memver

\* The arguments of a call as they enter the key: no rounding is applied.
KeyArgs(origin, destination) == [o |-> origin, d |-> destination]

make_cache_key(ver, origin, destination) ==
    [ver |-> ver.id, args |-> KeyArgs(origin, destination)]

\* Faulty variant of Expired: the comparison the wrong way round.
ExpiredInverted(expires) == expires > now

\* Faulty variant of CacheGet: whatever is stored for the arguments is
\* returned, with no regard to its expiry or to the version token.
CacheGetStale(key) ==
    IF key.args \in DOMAIN cache
    THEN [found |-> TRUE, rv |-> cache[key.args].value]
    ELSE [found |-> FALSE, rv |-> Unavailable]

\* SimpleCache.get: the stored value if the key is present and not expired.
Expired(expires) == expires <= now

CacheGet(key) ==
    IF /\ key.args \in DOMAIN cache
       /\ cache[key.args].ver = key.ver
       /\ ~Expired(cache[key.args].expires)
    THEN [found |-> TRUE, rv |-> cache[key.args].value]
    ELSE [found |-> FALSE, rv |-> Unavailable]

\* Faulty variant of CacheSet: the cache is cleared before the entry is
\* stored.
CacheSetFlush(key, rv) ==
    IF key.ver = memver.id
    THEN [k \in {key.args} |->
            [ver |-> key.ver, value |-> rv, at |-> now,
             expires |-> now + CACHE_DEFAULT_TIMEOUT]]
    ELSE cache

\* SimpleCache.set with the default timeout.  An entry stored under a version
\* token that is no longer the function's current one can never be read again
\* (tokens are never reused), so it is not kept.  SimpleCache evicts entries
\* only when it holds more than 500 of them; the model has far fewer keys.
CacheSet(key, rv) ==
    IF key.ver = memver.id
    THEN [k \in DOMAIN cache \cup {key.args} |->
            IF k = key.args
            THEN [ver |-> key.ver, value |-> rv, at |-> now,
                  expires |-> now + CACHE_DEFAULT_TIMEOUT]
            ELSE cache[k]]
    ELSE cache


Record(args, c) ==
    [k \in DOMAIN lastCall \cup {args} |-> IF k = args THEN c ELSE lastCall[k]]

Previous(args) == IF args \in DOMAIN lastCall THEN lastCall[args] ELSE NoCall

\* --------------------------------------------------------------- responses
\* jsonify({'message': ...}), code
Reply(code, message) ==
    [code |-> code, message |-> message, crashed |-> FALSE,
     estimated_arrival_time |-> 0, distance_to_stop |-> 0]

\* An exception that leaves the view function: Flask answers 500.
Crash(exception) ==
    [code |-> 500, message |-> exception, crashed |-> TRUE,
     estimated_arrival_time |-> 0, distance_to_stop |-> 0]

Success(estimated_time, distance) ==
    [code |-> 200, message |-> "", crashed |-> FALSE,
     estimated_arrival_time |-> estimated_time, distance_to_stop |-> distance]

Done(t, response) == [t EXCEPT !.pc = "done", !.response = response]

\* ------------------------------------------------------- find_nearest_stop
\* Faulty variant of Less: a later stop at the same distance replaces the
\* earlier one.
LessOrEqual(distance, min_distance) ==
    min_distance.inf \/ distance <= min_distance.v

\* distance < min_distance
Less(distance, min_distance) == min_distance.inf \/ distance < min_distance.v

\* Faulty variant of Visit: the test `distance is not None` is left out.
VisitUnchecked(t, rv) ==
    LET better == Less(rv.distance, t.min_distance)
    IN  [t EXCEPT !.pc = "scan",
                  !.min_distance = IF better THEN Finite(rv.distance) ELSE @,
                  !.nearest_stop = IF better THEN t.route_stops[t.i] ELSE @,
                  !.i = @ + 1,
                  !.resolved = Append(@, rv)]

\* Lines 44-46 for the stop at position t.i, then the next iteration.
Visit(t, rv) ==
    LET better == ~rv.none /\ Less(rv.distance, t.min_distance)
    IN  [t EXCEPT !.pc = "scan",
                  !.min_distance = IF better THEN Finite(rv.distance) ELSE @,
                  !.nearest_stop = IF better THEN t.route_stops[t.i] ELSE @,
                  !.i = @ + 1,
                  !.resolved = Append(@, rv)]

\* --------------------------------------------------- estimate_arrival_time
\* Line 3 imports the class datetime.datetime under the name datetime; the
\* class has no attribute timedelta, so line 90 raises AttributeError.
DatetimeHasTimedelta == FALSE

\* Faulty variant of Compose: the test `distance_to_bus is None` of line 87
\* is left out.
ComposeUnchecked(t, rv) ==
    IF ~DatetimeHasTimedelta
    THEN Done(t, Crash("AttributeError"))
    ELSE Done(t, Success(now + rv.duration, rv.distance))

\* Lines 87-92 and 149-155, given the vehicle-to-stop resolution rv.
Compose(t, rv) ==
    IF rv.none
    THEN Done(t, Reply(500, "Could not calculate arrival time"))
    ELSE IF ~DatetimeHasTimedelta
    THEN Done(t, Crash("AttributeError"))
    ELSE Done(t, Success(now + rv.duration, rv.distance))

\* ------------------------------------------------------------ history
\* What ended a call: "cache", the exception of requests.get, or the status
\* of the body it received.
Cause(resp) == IF resp.kind = "Body" THEN resp.status ELSE resp.kind

Min(a, b) == IF a <= b THEN a ELSE b

\* A call that returns rv: when it was made (t), whether it sent an outbound
\* query (fresh), when the entry it read or wrote was stored (at), and until
\* when that entry can be read (until): the entry's own expiry or that of the
\* version token it was stored under, whichever comes first.
Outcome(t, rv) ==
    LET fresh == t.attempts > 0
        entry == IF fresh THEN [ver |-> t.key.ver, at |-> now,
                                expires |-> now + CACHE_DEFAULT_TIMEOUT]
                 ELSE cache[t.key.args]
    IN  [made |-> TRUE, t |-> t.t, fresh |-> fresh, rv |-> rv,
         at |-> entry.at,
         until |-> IF entry.ver = memver.id
                   THEN Min(entry.expires, memver.expires) ELSE now]

Returned(t, rv, cause) ==
    [t EXCEPT !.call = [made |-> TRUE, args |-> t.key.args,
                        attempts |-> t.attempts, cause |-> cause,
                        this |-> Outcome(t, rv),
                        prev |-> Previous(t.key.args)]]

Log(t, rv) == Record(t.key.args, Outcome(t, rv))


\* ------------------------------------------------------------------ actions
\* Faulty variant of Receive: the parameters are not validated.
ReceiveUnvalidated(r, b, u) ==
    /\ th[r].pc = "idle"
    /\ received < MaxRequests
    /\ received' = received + 1
    /\ th' = [th EXCEPT ![r] =
                [th[r] EXCEPT !.bus_number = b, !.user_id = u, !.pc = "bus"]]
    /\ UNCHANGED <<now, db, memver, cache, lastCall>>

\* GET /estimate?bus_number=b&user_id=u arrives; lines 129-133.
Receive(r, b, u) ==
    /\ th[r].pc = "idle"
    /\ received < MaxRequests
    /\ received' = received + 1
    /\ LET t == [th[r] EXCEPT !.bus_number = b, !.user_id = u]
       IN  th' = [th EXCEPT ![r] =
                    IF FalsyParam(b) \/ FalsyParam(u)
                    THEN Done(t, Reply(400, "Missing bus_number or user_id"))
                    ELSE [t EXCEPT !.pc = "bus"]]
    /\ UNCHANGED <<now, db, memver, cache, lastCall>>

\* Lines 135-137.
LookupBus(r) ==
    /\ th[r].pc = "bus"
    /\ LET bus == FindOne(db.buses, th[r].bus_number)
           t == [th[r] EXCEPT !.bus = bus, !.lookups = Append(@, "buses")]
       IN  th' = [th EXCEPT ![r] =
                    IF Falsy(bus)
                    THEN Done(t, Reply(404, "Bus not found"))
                    ELSE [t EXCEPT !.pc = "user"]]
    /\ UNCHANGED <<now, db, memver, cache, lastCall, received>>

\* Faulty variant of LookupUser: a missing user is reported as a missing bus.
LookupUserAsBus(r) ==
    /\ th[r].pc = "user"
    /\ LET user == FindOne(db.users, th[r].user_id)
           t == [th[r] EXCEPT !.user = user, !.lookups = Append(@, "users")]
       IN  th' = [th EXCEPT ![r] =
                    IF Falsy(user)
                    THEN Done(t, Reply(404, "Bus not found"))
                    ELSE [t EXCEPT !.pc = "route"]]
    /\ UNCHANGED <<now, db, memver, cache, lastCall, received>>

\* Lines 139-141.
LookupUser(r) ==
    /\ th[r].pc = "user"
    /\ LET user == FindOne(db.users, th[r].user_id)
           t == [th[r] EXCEPT !.user = user, !.lookups = Append(@, "users")]
       IN  th' = [th EXCEPT ![r] =
                    IF Falsy(user)
                    THEN Done(t, Reply(404, "User not found"))
                    ELSE [t EXCEPT !.pc = "route"]]
    /\ UNCHANGED <<now, db, memver, cache, lastCall, received>>

\* Lines 143-147, then lines 76-78 and 39-40: the route lookup, and on success
\* the entry into estimate_arrival_time and find_nearest_stop.
LookupRoute(r) ==
    /\ th[r].pc = "route"
    /\ LET route_stops == get_route_stops(th[r].bus.route_id)
           t == [th[r] EXCEPT !.route_stops = route_stops.list,
                              !.lookups = Append(@, "routes")]
       IN  th' = [th EXCEPT ![r] =
                    IF FalsyList(route_stops)
                    THEN Done(t, Reply(404, "Route not found"))
                    ELSE IF Falsy(t.bus) \/ Falsy(t.user.location)
                            \/ FalsyList(route_stops)
                    THEN Done(t, Reply(500, "Could not calculate arrival time"))
                    ELSE [t EXCEPT !.pc = "scan", !.i = 1,
                                   !.nearest_stop = None,
                                   !.min_distance = Inf]]
    /\ UNCHANGED <<now, db, memver, cache, lastCall, received>>

\* The memoize wrapper around calculate_distance_google_maps up to the point
\* where it either returns the stored value or calls the function: the thread
\* with the key made and the time of the call noted.
Enter(t, origin, destination) ==
    [t EXCEPT !.key = make_cache_key(MemoizeVersion, origin, destination),
              !.t = now, !.attempts = 0]

\* Faulty variant of Send: the query is sent twice.
SendTwice(t, pc) ==
    [t EXCEPT !.pc = pc, !.attempts = @ + 2, !.outbound = @ + 2,
              !.sent = Append(Append(@, Params(t.key.args.o, t.key.args.d)),
                              Params(t.key.args.o, t.key.args.d))]

\* requests.get is called with the parameters of lines 54-58: one outbound
\* query is in flight.
Send(t, pc) ==
    [t EXCEPT !.pc = pc, !.attempts = @ + 1, !.outbound = @ + 1,
              !.sent = Append(@, Params(t.key.args.o, t.key.args.d))]

\* Line 43 for the stop at position i: the memoized call with the rider's
\* location and the stop's coordinates; on a hit lines 44-46 follow.
ScanStop(r) ==
    /\ th[r].pc = "scan"
    /\ th[r].i <= Len(th[r].route_stops)
    /\ LET t == Enter(th[r], th[r].user.location,
                      th[r].route_stops[th[r].i].coordinates)
           got == CacheGet(t.key)
       IN  /\ memver' = MemoizeVersion
           /\ IF got.found
              THEN /\ th' = [th EXCEPT ![r] =
                                Visit(Returned(t, got.rv, "cache"), got.rv)]
                   /\ lastCall' = Log(t, got.rv)
              ELSE /\ th' = [th EXCEPT ![r] = Send(t, "await_stop")]
                   /\ UNCHANGED lastCall
    /\ UNCHANGED <<now, db, cache, received>>

\* requests.get of a rider-to-stop query ends in resp: lines 61-72, then the
\* wrapper stores the return value, then lines 44-46.  An exception that is
\* not a RequestException leaves the function, the loop and the handler.
StopResponse(r, resp) ==
    /\ th[r].pc = "await_stop"
    /\ LET out == FunctionBody(resp)
           t == th[r]
       IN  IF out.raised
           THEN /\ th' = [th EXCEPT ![r] = Done(t, Crash("KeyError"))]
                /\ UNCHANGED <<cache, lastCall>>
           ELSE /\ cache' = CacheSet(t.key, out.rv)
                /\ th' = [th EXCEPT ![r] =
                            Visit(Returned(t, out.rv, Cause(resp)), out.rv)]
                /\ lastCall' = Log(t, out.rv)
    /\ UNCHANGED <<now, db, memver, received>>

\* The loop is over: line 47, then lines 78-80.
ReturnNearest(r) ==
    /\ th[r].pc = "scan"
    /\ th[r].i > Len(th[r].route_stops)
    /\ th' = [th EXCEPT ![r] =
                IF Falsy(th[r].nearest_stop)
                THEN Done(th[r], Reply(500, "Could not calculate arrival time"))
                ELSE [th[r] EXCEPT !.pc = "vehicle"]]
    /\ UNCHANGED <<now, db, memver, cache, lastCall, received>>

\* Lines 82-85: the memoized call with the vehicle's and the nearest stop's
\* coordinates, each passed as the tuple (coordinates[1], coordinates[0]).
ResolveVehicle(r) ==
    /\ th[r].pc = "vehicle"
    /\ LET bus == th[r].bus.current_location.coordinates
           stop == th[r].nearest_stop.coordinates
           t == Enter(th[r], PyTuple(bus.x1, bus.x0), PyTuple(stop.x1, stop.x0))
           got == CacheGet(t.key)
       IN  /\ memver' = MemoizeVersion
           /\ IF got.found
              THEN /\ th' = [th EXCEPT ![r] =
                        Compose([Returned(t, got.rv, "cache")
                                    EXCEPT !.distance_to_bus = got.rv], got.rv)]
                   /\ lastCall' = Log(t, got.rv)
              ELSE /\ th' = [th EXCEPT ![r] = Send(t, "await_bus")]
                   /\ UNCHANGED lastCall
    /\ UNCHANGED <<now, db, cache, received>>

\* requests.get of the vehicle-to-stop query ends in resp.
VehicleResponse(r, resp) ==
    /\ th[r].pc = "await_bus"
    /\ LET out == FunctionBody(resp)
           t == th[r]
       IN  IF out.raised
           THEN /\ th' = [th EXCEPT ![r] = Done(t, Crash("KeyError"))]
                /\ UNCHANGED <<cache, lastCall>>
           ELSE /\ cache' = CacheSet(t.key, out.rv)
                /\ th' = [th EXCEPT ![r] =
                        Compose([Returned(t, out.rv, Cause(resp))
                                    EXCEPT !.distance_to_bus = out.rv], out.rv)]
                /\ lastCall' = Log(t, out.rv)
    /\ UNCHANGED <<now, db, memver, received>>

\* The response has been sent; the thread serves the next request.
Complete(r) ==
    /\ th[r].pc = "done"
    /\ th' = [th EXCEPT ![r] = IdleThread]
    /\ UNCHANGED <<now, db, memver, cache, lastCall, received>>

\* Time passes.
Steps == {CACHE_DEFAULT_TIMEOUT - 1, CACHE_DEFAULT_TIMEOUT}

Tick(d) ==
    /\ now + d <= MaxNow
    /\ now' = now + d
    /\ UNCHANGED <<db, memver, cache, th, lastCall, received>>

Step(r) ==
    \/ \E b \in BusNumbers, u \in UserIds : Receive(r, b, u)
    \/ LookupBus(r)
    \/ LookupUser(r)
    \/ LookupRoute(r)
    \/ ScanStop(r)
    \/ \E resp \in Responses : StopResponse(r, resp)
    \/ ReturnNearest(r)
    \/ ResolveVehicle(r)
    \/ \E resp \in Responses : VehicleResponse(r, resp)
    \/ Complete(r)

Next ==
    \/ \E r \in Threads : Step(r)
    \/ \E d \in Steps : Tick(d)

Spec == Init /\ [][Next]_vars

\* One request served by one thread on a cold cache, the clock standing still.
NextSearch ==
    \/ \E b \in BusNumbers, u \in UserIds : Receive(1, b, u)
    \/ LookupBus(1)
    \/ LookupUser(1)
    \/ LookupRoute(1)
    \/ ScanStop(1)
    \/ \E resp \in Responses : StopResponse(1, resp)
    \/ ReturnNearest(1)
    \/ ResolveVehicle(1)
    \/ \E resp \in Responses : VehicleResponse(1, resp)

SpecSearch == Init /\ [][NextSearch]_vars

\* Requests served one after another by one thread, over a route of one stop,
\* while time passes.
InitCache == Init /\ Len(db.routes.R1.stops) = 1

NextCache ==
    \/ Step(1)
    \/ \E d \in Steps : Tick(d)

SpecCache == InitCache /\ [][NextCache]_vars

\* Requests served concurrently by all threads, the clock standing still.
NextThreads == \E r \in Threads : Step(r)

SpecThreads == InitCache /\ [][NextThreads]_vars

\* ==================================================================
\* Properties
\* ==================================================================
\* The time-to-live the specification states for a cache entry, in seconds.
TTL == 300

\* The last call each thread has seen return.
LastCall(r) == th[r].call

\* find_nearest_stop has returned to estimate_arrival_time.
SearchReturned(t) ==
    /\ t.pc \in {"vehicle", "await_bus", "done"}
    /\ t.i > Len(t.route_stops)

\* The positions of the stops whose resolution succeeded.
Reached(t) == {j \in 1..Len(t.resolved) : ~t.resolved[j].none}

\* The first position, in list order, that has the least resolved distance.
FirstMin(t) ==
    CHOOSE j \in Reached(t) :
        \A k \in Reached(t) :
            \/ t.resolved[j].distance < t.resolved[k].distance
            \/ t.resolved[j].distance = t.resolved[k].distance /\ j <= k

C2_FailureNotCached ==
    \A r \in Threads :
        LET c == LastCall(r)
        IN  (c.made /\ c.prev.made /\ c.prev.fresh /\ c.prev.rv.none)
                => c.this.fresh

\* ---- C3
\* C3: a stored value is returned only less than TTL after it was stored, and
\* a call made more than TTL after the entry the previous call for its key
\* wrote or read was stored sends a fresh outbound query.
C3_NeverAfterTTL ==
    \A r \in Threads :
        LET c == LastCall(r)
        IN  c.made =>
              /\ ~c.this.fresh => c.this.t < c.this.at + TTL
              /\ (c.prev.made /\ c.this.t > c.prev.at + TTL) => c.this.fresh

\* A call made more than TTL after a query stored its key's entry sends a
\* fresh query.
C3_Witness ==
    \E r \in Threads :
        LET c == LastCall(r)
        IN  /\ c.made /\ c.prev.made /\ c.prev.fresh
            /\ c.this.t > c.prev.at + TTL
            /\ c.this.fresh

\* ---- C4
\* C4: when find_nearest_stop returns and at least one stop resolved, it
\* returns the first stop, in list order, among those with the least resolved
\* distance, together with that distance.
C4_NearestIsFirstMinimum ==
    \A r \in Threads :
        LET t == th[r]
        IN  (SearchReturned(t) /\ Reached(t) # {})
                => /\ t.nearest_stop = t.route_stops[FirstMin(t)]
                   /\ t.min_distance = Finite(t.resolved[FirstMin(t)].distance)

\* Three stops resolved to 2000 m, 1000 m and 1000 m: the second is returned.
C4_Witness ==
    \E r \in Threads :
        LET t == th[r]
        IN  /\ SearchReturned(t)
            /\ Len(t.resolved) = 3
            /\ ~t.resolved[1].none /\ t.resolved[1].distance = 2000
            /\ ~t.resolved[2].none /\ t.resolved[2].distance = 1000
            /\ ~t.resolved[3].none /\ t.resolved[3].distance = 1000
            /\ t.nearest_stop = t.route_stops[2]

\* ---- C5
\* The time at which a call returned.
ReturnTime(c) == IF c.this.fresh THEN c.this.at ELSE c.this.t

\* C5: when the lookups succeeded, a nearest stop was found and the
\* vehicle-to-stop resolution succeeded, the request ends in the success
\* result: arrival = time of composition + duration, distance_to_stop = the
\* resolved distance.
C5_SuccessResult ==
    \A r \in Threads :
        LET t == th[r]
        IN  (/\ t.pc = "done"
             /\ SearchReturned(t)
             /\ t.nearest_stop # None
             /\ ~t.distance_to_bus.none)
                => t.response = Success(ReturnTime(t.call) + t.distance_to_bus.duration,
                                        t.distance_to_bus.distance)

\* ---- C6
BusAbsent(t) == Falsy(FindOne(db.buses, t.bus_number))
UserAbsent(t) == Falsy(FindOne(db.users, t.user_id))
RouteAbsent(t) ==
    FalsyList(get_route_stops(FindOne(db.buses, t.bus_number).route_id))

\* C6: a request with both parameters ends in 'Bus not found' whenever the bus
\* is absent, in 'User not found' exactly when the bus exists and the user is
\* absent, in 'Route not found' exactly when both exist and the route's stops
\* are absent or empty; each is a 404 with its own message, and after the
\* failed lookup no further lookup and no resolution is made.
C6_FailFast ==
    \A r \in Threads :
        LET t == th[r]
        IN  (t.pc = "done" /\ ~FalsyParam(t.bus_number) /\ ~FalsyParam(t.user_id))
            => /\ BusAbsent(t) <=> t.response.message = "Bus not found"
               /\ (~BusAbsent(t) /\ UserAbsent(t))
                    <=> t.response.message = "User not found"
               /\ (~BusAbsent(t) /\ ~UserAbsent(t) /\ RouteAbsent(t))
                    <=> t.response.message = "Route not found"
               /\ t.response.message = "Bus not found"
                    => t.response.code = 404 /\ t.lookups = <<"buses">>
               /\ t.response.message = "User not found"
                    => t.response.code = 404 /\ t.lookups = <<"buses", "users">>
               /\ t.response.message = "Route not found"
                    => /\ t.response.code = 404
                       /\ t.lookups = <<"buses", "users", "routes">>
               /\ t.response.code = 404
                    => t.outbound = 0 /\ t.resolved = <<>> /\ ~t.call.made

\* The vehicle and the rider exist and the route has no stops: 'Route not
\* found' after three lookups.
C6_Witness ==
    \E r \in Threads :
        LET t == th[r]
        IN  /\ t.pc = "done"
            /\ t.bus # None /\ t.user # None
            /\ db.routes.R1.stops = <<>>
            /\ t.response = Reply(404, "Route not found")
            /\ t.lookups = <<"buses", "users", "routes">>

\* ---- C7
\* C7: when find_nearest_stop returns it has visited every stop; it returns
\* no stop exactly when every resolution returned (None, None) (the handler
\* never passes an empty list); and when exactly one stop resolved it returns
\* that stop.
C7_UnavailableSkipped ==
    \A r \in Threads :
        LET t == th[r]
        IN  SearchReturned(t)
            => /\ Len(t.resolved) = Len(t.route_stops)
               /\ t.nearest_stop = None <=> Reached(t) = {}
               /\ \A j \in 1..Len(t.resolved) :
                    Reached(t) = {j} => t.nearest_stop = t.route_stops[j]

\* Every stop but the last was unavailable: the last stop is returned.
C7_Witness ==
    \E r \in Threads :
        LET t == th[r]
        IN  /\ SearchReturned(t)
            /\ Len(t.route_stops) >= 2
            /\ Reached(t) = {Len(t.route_stops)}
            /\ t.nearest_stop = t.route_stops[Len(t.route_stops)]

\* ---- C8
InFlight(r) == th[r].pc \in {"await_stop", "await_bus"}

\* C8: no two threads have an outbound query in flight for the same
\* (origin, destination) at the same time.
C8_SingleFlight ==
    \A r1, r2 \in Threads :
        (r1 # r2 /\ InFlight(r1) /\ InFlight(r2))
            => th[r1].key.args # th[r2].key.args

\* ---- C9
\* C9: a call that ended in a network failure has made two outbound attempts;
\* a call that ended in a non-OK status has made one.
C9_RetryOnce ==
    \A r \in Threads :
        LET c == LastCall(r)
        IN  c.made =>
              /\ c.cause = "ConnectionError" => c.attempts = 2
              /\ c.cause \notin {"cache", "OK", "ConnectionError", "HTTPError"}
                    => c.attempts = 1

\* ---- C10
\* Rounding to ~10 m: coordinates are in units of 1e-5 degree, the precision
\* is 1e-4 degree.
Round(x) == ((x + 5) \div 10) * 10
RoundPoint(p) == [p EXCEPT !.x0 = Round(@), !.x1 = Round(@)]
RoundedKey(args) == [o |-> RoundPoint(args.o), d |-> RoundPoint(args.d)]

\* C10: a call made while the entry of an earlier call is still readable,
\* with other arguments that round to the same key, returns that call's
\* result and sends no outbound query.
C10_RoundedKeyShared ==
    \A r \in Threads :
        LET c == LastCall(r)
        IN  c.made =>
              \A k \in DOMAIN lastCall :
                (/\ k # c.args
                 /\ RoundedKey(k) = RoundedKey(c.args)
                 /\ lastCall[k].t <= c.this.t
                 /\ c.this.t < lastCall[k].until)
                    => c.this.rv = lastCall[k].rv /\ ~c.this.fresh

\* ---- C11
\* C11: no request ends with an exception that escaped the resolver: every
\* outbound query that fails, a malformed body included, makes the resolver
\* return Unavailable, and the request ends in a reported failure.
C11_NeverRaises ==
    \A r \in Threads :
        th[r].pc = "done" /\ th[r].outbound > 0
            => ~th[r].response.crashed \/ th[r].response.message # "KeyError"

\* ---- C12
\* The steps of a request that depend on the handler alone: the thread is
\* scheduled and the record store answers.  The end of requests.get is not
\* among them: line 60 passes no timeout, so the call lasts for as long as the
\* distance service stays silent.
HandlerStep(r) ==
    \/ LookupBus(r)
    \/ LookupUser(r)
    \/ LookupRoute(r)
    \/ ScanStop(r)
    \/ ReturnNearest(r)
    \/ ResolveVehicle(r)

\* One request on a cold cache; the handler keeps running, the distance
\* service answers or not.
SpecLive == Init /\ [][NextSearch]_vars /\ WF_vars(HandlerStep(1))

\* C12: every request that has been received eventually completes, whether
\* the distance service answers or not.
C12_EventuallyCompletes ==
    \A r \in Threads : (th[r].pc # "idle") ~> (th[r].pc = "done")

\* ---- C13
\* The request names a vehicle of the store whose route exists with an empty
\* list of stops.
EmptyRoute(t) ==
    /\ t.pc # "idle"
    /\ t.bus_number \in DOMAIN db.buses
    /\ db.buses[t.bus_number].route_id \in DOMAIN db.routes
    /\ db.routes[db.buses[t.bus_number].route_id].stops = <<>>

\* C13: a request for a vehicle whose route exists with an empty stop list
\* never sends an outbound query and never enters the search; it ends neither
\* in a crash nor in success, and when the rider exists too it ends in the
\* 404 reply 'Route not found'.
C13_EmptyRouteNotFound ==
    \A r \in Threads :
        LET t == th[r]
        IN  EmptyRoute(t) =>
              /\ t.outbound = 0 /\ t.sent = <<>> /\ t.resolved = <<>>
              /\ t.pc \in {"bus", "user", "route", "done"}
              /\ t.pc = "done" =>
                    /\ ~t.response.crashed
                    /\ t.response.code # 200
                    /\ t.user_id \in DOMAIN db.users
                          => t.response = Reply(404, "Route not found")

\* A request for an existing vehicle and rider has ended over an empty route.
C13_Witness ==
    \E r \in Threads :
        /\ EmptyRoute(th[r])
        /\ th[r].pc = "done"
        /\ th[r].user_id \in DOMAIN db.users
        /\ th[r].response.code = 404
        /\ th[r].outbound = 0

\* ---- C14
\* The vehicle-to-stop resolution of the request has returned: it is the one
\* call whose arguments are tuples.
VehicleReturned(t) ==
    /\ t.pc = "done"
    /\ t.call.made
    /\ t.call.args.o.type = "tuple"

EstimationUnavailable == Reply(500, "Could not calculate arrival time")

\* C14: when the search returns no stop (every stop was unavailable), and
\* when the vehicle-to-stop resolution returns (None, None), the request ends
\* in the 500 reply 'Could not calculate arrival time', never in success.
C14_EstimationUnavailable ==
    \A r \in Threads :
        LET t == th[r]
        IN  /\ (SearchReturned(t) /\ t.nearest_stop = None)
                  => t.pc = "done" /\ t.response = EstimationUnavailable
            /\ (VehicleReturned(t) /\ t.call.this.rv.none)
                  => t.response = EstimationUnavailable

\* A stop was found and the vehicle-to-stop resolution was unavailable.
C14_Witness ==
    \E r \in Threads :
        LET t == th[r]
        IN  /\ VehicleReturned(t)
            /\ t.call.this.rv.none
            /\ t.nearest_stop # None
            /\ t.response.code = 500 /\ ~t.response.crashed

\* ---- C15
NonNegative(rv) == ~rv.none => rv.distance >= 0 /\ rv.duration >= 0

\* C15: every result a resolution returns that is not (None, None), whether
\* returned from a fresh query or from the cache, and every result the cache
\* holds, has a distance >= 0 and a duration >= 0 (the distance service
\* answering with non-negative values).
C15_NonNegative ==
    /\ \A k \in DOMAIN cache : NonNegative(cache[k].value)
    /\ \A k \in DOMAIN lastCall : NonNegative(lastCall[k].rv)
    /\ \A r \in Threads :
          /\ LastCall(r).made => NonNegative(LastCall(r).this.rv)
          /\ \A j \in 1..Len(th[r].resolved) : NonNegative(th[r].resolved[j])
          /\ NonNegative(th[r].distance_to_bus)

\* A successful result with a positive distance was returned from the cache.
C15_Witness ==
    \E r \in Threads :
        LET c == LastCall(r)
        IN  /\ c.made /\ ~c.this.fresh
            /\ ~c.this.rv.none
            /\ c.this.rv.distance > 0 /\ c.this.rv.duration > 0

\* ---- C16
\* The distances and durations the distance service's responses carry.
CarriedDistances ==
    {resp.distance[1] : resp \in {x \in Responses : x.distance # Missing}}
CarriedDurations ==
    {resp.duration[1] : resp \in {x \in Responses : x.duration # Missing}}

\* C16: the distance and the duration of every successful rider-to-stop
\* resolution are values a response of the distance service carried, never
\* a default put in their place; no stop is the nearest with a distance that
\* no response carried.
C16_NoDefault ==
    \A r \in Threads :
        LET t == th[r]
        IN  /\ \A j \in 1..Len(t.resolved) :
                  ~t.resolved[j].none =>
                      /\ t.resolved[j].distance \in CarriedDistances
                      /\ t.resolved[j].duration \in CarriedDurations
            /\ ~t.min_distance.inf => t.min_distance.v \in CarriedDistances

\* ---- C17
\* The position in the list of the stop the search returned.
NearestIndex(t) ==
    CHOOSE j \in 1..Len(t.route_stops) : t.route_stops[j] = t.nearest_stop

\* C17: on a cold cache, where every call sends its query, the destination
\* the vehicle-to-stop query sends for the nearest stop is the destination
\* the rider-to-stop query sent for that stop: both sites put the stop's
\* coordinates in the same order.
C17_SameOrder ==
    \A r \in Threads :
        LET t == th[r]
            n == Len(t.route_stops)
        IN  (SearchReturned(t) /\ Len(t.sent) = n + 1)
                => t.sent[n + 1].destinations
                        = t.sent[NearestIndex(t)].destinations

\* ---- C18
\* C18: the step that receives a request lacking bus_number or user_id ends
\* it at once with the 400 reply: no collection has been queried, no
\* outbound query sent, and the store, the cache and its version token are
\* as they were.
C18_RejectedFirst ==
    [][\A r \in Threads :
          (/\ th[r].pc = "idle" /\ th'[r].pc # "idle"
           /\ th'[r].bus_number = NoParam \/ th'[r].user_id = NoParam)
              => /\ th'[r].pc = "done"
                 /\ th'[r].response = Reply(400, "Missing bus_number or user_id")
                 /\ th'[r].lookups = <<>>
                 /\ th'[r].outbound = 0 /\ th'[r].sent = <<>>
                 /\ cache' = cache /\ memver' = memver /\ db' = db]_vars

\* A request without user_id has been rejected while the cache held entries.
C18_Witness ==
    \E r \in Threads :
        /\ th[r].pc = "done"
        /\ th[r].bus_number # NoParam /\ th[r].user_id = NoParam
        /\ th[r].response.code = 400
        /\ cache # <<>>

\* ---- C19
\* C19: on a cold cache a request over n stops sends one query per stop, in
\* list order, from the rider's location, then at most one more, from the
\* vehicle to the stop the search returned: n + 1 at most.  It sends none
\* when it ends in a 400 or 404 reply, and no vehicle-to-stop query when the
\* search returned no stop.
C19_CallBudget ==
    \A r \in Threads :
        LET t == th[r]
            n == Len(t.route_stops)
        IN  /\ t.outbound = Len(t.sent)
            /\ t.outbound <= n + 1
            /\ Len(t.resolved) <= n
            /\ \A j \in 1..Len(t.sent) :
                  IF j <= n
                  THEN t.sent[j] = Params(t.user.location,
                                          t.route_stops[j].coordinates)
                  ELSE /\ t.nearest_stop # None
                       /\ t.sent[j] = Params(
                             PyTuple(t.bus.current_location.coordinates.x1,
                                     t.bus.current_location.coordinates.x0),
                             PyTuple(t.nearest_stop.coordinates.x1,
                                     t.nearest_stop.coordinates.x0))
            /\ Len(t.sent) = n + 1 => Len(t.resolved) = n
            /\ (t.pc = "done" /\ t.response.code \in {400, 404})
                  => t.outbound = 0
            /\ (SearchReturned(t) /\ t.nearest_stop = None)
                  => t.outbound <= n

\* A request over at least two stops has sent one query per stop and one for
\* the vehicle.
C19_Witness ==
    \E r \in Threads :
        LET t == th[r]
        IN  /\ t.pc = "done"
            /\ Len(t.route_stops) >= 2
            /\ t.outbound = Len(t.route_stops) + 1

\* ---- C20
\* POST /routes with all required fields, lines 98-115: insert_one adds the
\* route.  A document whose route_id is already present is added after the
\* existing one, which find_one keeps returning: what the lookups read stays
\* as it was.
RouteIds == {"R1", "R2"}

CreateRoute(route_id, n) ==
    /\ db' = IF route_id \in DOMAIN db.routes
             THEN db
             ELSE [db EXCEPT !.routes =
                     [id \in DOMAIN db.routes \cup {route_id} |->
                        IF id = route_id
                        THEN [route_id |-> route_id, stops |-> StopList(n)]
                        ELSE db.routes[id]]]
    /\ UNCHANGED <<now, memver, cache, th, lastCall, received>>

\* One request served on a cold cache while routes are created, the clock
\* standing still.
NextStore ==
    \/ NextSearch
    \/ \E route_id \in RouteIds, n \in 0..MaxStops : CreateRoute(route_id, n)

SpecStore == Init /\ [][NextStore]_vars

\* What the cache holds for the arguments k.
Entry(c, k) == IF k \in DOMAIN c THEN {c[k]} ELSE {}

====
